---------------------------- MODULE Spec2Model ----------------------------
(***************************************************************************)
(* Model of backend/server.py: Google OAuth login, JWT session tokens,     *)
(* the users collection and the profile API, and the status-check log.     *)
(*                                                                         *)
(* Every handler is a coroutine: it runs up to an await, and other         *)
(* requests, database operations and the clock may move before it goes on. *)
(* A request under way is a record of the bag inflight that carries the    *)
(* handler's local variables and its position; one action is one stretch   *)
(* of a handler between awaits, together with the database operation that  *)
(* the await before it waited for.                                         *)
(*                                                                         *)
(* Time is counted in hours (the token lifetime is 24 of them).  uuid4()   *)
(* is a counter of fresh values.  JSON / BSON values that a field may hold *)
(* are tagged records, so that null, strings and numbers stay distinct.    *)
(***************************************************************************)
EXTENDS Integers, Sequences, FiniteSets, Bags, TLC

VARIABLES
    users,          \* db.users: the documents, in natural (insertion) order
    status_checks,  \* db.status_checks: the documents, in natural order
    now,            \* datetime.utcnow(), in hours
    ticks,          \* how many times the clock has been advanced
    nextId,         \* source of uuid.uuid4() values
    inflight,       \* the requests suspended at an await, a bag of records
    issued,         \* the tokens handed out by the login callback, and when
    loggedOut,      \* the tokens that were presented to POST /auth/logout
    posted,         \* the records POST /status has returned
    arrived,        \* the request that arrived in the last step, NoReq when none did
    resp            \* the response the last step sent, NoResp when it sent none

vars == <<users, status_checks, now, ticks, nextId, inflight, issued,
          loggedOut, posted, arrived, resp>>

---------------------------------------------------------------------------
(* Bounds of the model. *)

MaxIds == 2
MaxTicks == 2
MaxInflight == 2
MaxPosts == 3

(* Program constants. *)

TokenTTL == 24
StatusCap == 1000

SECRET_KEY == "SECRET_KEY"

---------------------------------------------------------------------------
(* Values. *)

Null == [t |-> "null"]
Str(s) == [t |-> "str", v |-> s]
IntV(i) == [t |-> "int", v |-> i]

(* The JSON number i.0 *)
FloatV(i) == [t |-> "float", v |-> i]

(* The JSON values true and false *)
BoolV(b) == [t |-> "bool", v |-> b]

NoDoc == [t |-> "none"]

Min(a, b) == IF a < b THEN a ELSE b

Range(s) == {s[i] : i \in DOMAIN s}

Subjects == {"g1", "g2"}

(* What the provider may hand back as token["userinfo"]: a dict that has   *)
(* the profile claims or lacks some of them.                               *)
UserInfos ==
    {[sub |-> "g1", email |-> "ann@x", name |-> "Ann", picture |-> "pic"],
     [sub |-> "g1", email |-> "ann@y", name |-> "Anna"],
     [sub |-> "g2", email |-> "bob@x", name |-> "Bob", picture |-> "pic"],
     [sub |-> "g2", name |-> "Bob"]}

(* The outcome of oauth.google.authorize_access_token(request).            *)
ProviderOutcomes ==
    {[kind |-> "error"], [kind |-> "no_userinfo"]}
    \cup {[kind |-> "ok", userinfo |-> u] : u \in UserInfos}

---------------------------------------------------------------------------
(* Token Service. *)

Garbage == [wf |-> FALSE, key |-> "", sub |-> "", exp |-> 0]

jwt_encode(claims, key) ==
    [wf |-> TRUE, key |-> key, sub |-> claims.sub, exp |-> claims.exp]

(* Faulty variant: the expiry is an hour from issuance, not TokenTTL hours. *)
create_access_token_short(data) ==
    jwt_encode([sub |-> data.sub, exp |-> now + 1], SECRET_KEY)

create_access_token(data) ==
    jwt_encode([sub |-> data.sub, exp |-> now + TokenTTL], SECRET_KEY)

(* Faulty variant: the exp claim is not checked. *)
verify_token_noexp(token) ==
    IF ~token.wf \/ token.key # SECRET_KEY
    THEN [ok |-> FALSE, status |-> 401, detail |-> "Invalid token", sub |-> ""]
    ELSE [ok |-> TRUE, status |-> 200, detail |-> "", sub |-> token.sub]

(* jwt.decode: structure and signature first, then the exp claim. *)
verify_token(token) ==
    IF ~token.wf \/ token.key # SECRET_KEY
    THEN [ok |-> FALSE, status |-> 401, detail |-> "Invalid token", sub |-> ""]
    ELSE IF token.exp <= now
    THEN [ok |-> FALSE, status |-> 401, detail |-> "Token expired", sub |-> ""]
    ELSE [ok |-> TRUE, status |-> 200, detail |-> "", sub |-> token.sub]

---------------------------------------------------------------------------
(* User Store: the operations the database performs on db.users.           *)

FindIdx(coll, gid) ==
    IF \E i \in DOMAIN coll : coll[i].google_id = gid
    THEN CHOOSE i \in DOMAIN coll :
            /\ coll[i].google_id = gid
            /\ \A j \in DOMAIN coll : coll[j].google_id = gid => i <= j
    ELSE 0

find_one(coll, gid) ==
    IF FindIdx(coll, gid) = 0 THEN NoDoc ELSE coll[FindIdx(coll, gid)]

ApplySet(doc, fields) ==
    [f \in (DOMAIN doc) \cup (DOMAIN fields) |->
        IF f \in DOMAIN fields THEN fields[f] ELSE doc[f]]

(* Faulty variant: the filter matches nothing, the write is lost. *)
update_one_lost(coll, gid, fields) ==
    coll

(* update_one on a collection where the filter {"google_id": gid} is       *)
(* evaluated: $set on the first document that matches, nothing without one. *)
update_one(coll, gid, fields) ==
    IF FindIdx(coll, gid) # 0
    THEN [coll EXCEPT ![FindIdx(coll, gid)] = ApplySet(@, fields)]
    ELSE coll

(* The insert of an upsert whose filter matched nothing: a document of the *)
(* filter's equality fields and the $set fields.  The collection has no    *)
(* unique index, so nothing is looked up again at this point.              *)
upsert_insert(coll, gid, fields) ==
    Append(coll, ApplySet([google_id |-> gid], fields))

---------------------------------------------------------------------------
(* Pydantic models. *)

UpdateFields == {"name", "about_me", "age"}

Invalid == [t |-> "invalid"]

(* int(s) for the strings that Python reads as an integer; of the strings  *)
(* of JsonValues that is "30".                                             *)
StrToInt == [s \in {"30"} |-> 30]

(* Validation of a value for a field of type Optional[int]: an integer, a  *)
(* string of digits, a float without fraction and a boolean all come out   *)
(* as the int.                                                             *)
OptionalInt(v) ==
    CASE v.t \in {"int", "null"} -> v
      [] v.t = "float" -> IntV(v.v)
      [] v.t = "bool" -> IntV(IF v.v THEN 1 ELSE 0)
      [] v.t = "str" /\ v.v \in DOMAIN StrToInt -> IntV(StrToInt[v.v])
      [] OTHER -> Invalid

(* Validation of a value for a field of type Optional[str].                *)
OptionalStr(v) ==
    IF v.t \in {"str", "null"} THEN v ELSE Invalid

(* UserProfile built from a stored document: name and about_me must hold   *)
(* strings, age an integer or None; anything else raises.                  *)
UserProfileValid(doc) ==
    /\ doc # NoDoc
    /\ doc.name.t = "str"
    /\ doc.about_me.t = "str"
    /\ doc.age.t \in {"int", "null"}

(* What the body parameter of a handler is when the request carried no     *)
(* bytes, and when it carried bytes that were not decoded: those bytes.    *)
Missing == [t |-> "missing"]

RawBytes(bytes) == [t |-> "bytes", v |-> bytes]

IsRawBytes(body) == DOMAIN body = {"t", "v"} /\ body.t = "bytes"

(* UserProfileUpdate built from a JSON object: the fields of the model    *)
(* that the body set, each with its validated value; a key of the body     *)
(* that is no field of the model is dropped.                               *)
UserProfileUpdate(body) ==
    [f \in (DOMAIN body) \cap UpdateFields |->
        IF f = "age" THEN OptionalInt(body[f]) ELSE OptionalStr(body[f])]

(* The body parameter profile_update: required, an object, every field of  *)
(* a value its type takes.                                                 *)
UserProfileUpdateValid(body) ==
    /\ body # Missing
    /\ ~IsRawBytes(body)
    /\ \A f \in DOMAIN UserProfileUpdate(body) : UserProfileUpdate(body)[f] # Invalid

(* profile_update.dict(exclude_unset=True): the keys the body set. *)
dict_exclude_unset(profile_update) ==
    profile_update

JsonValues ==
    {Null, Str("Zed"), Str("bio"), IntV(30), Str("thirty"), Str("30"), FloatV(30),
     BoolV(TRUE)}

(* The bytes of a request body: none; bytes that are no JSON text, as      *)
(* '{not json'; bytes that are not UTF-8, as '{"name": "\xff"}'; brackets  *)
(* nested deeper than the interpreter recurses; or the text of a JSON      *)
(* object (a function of its keys).                                        *)
Empty == [t |-> "empty"]

BadSyntax == [t |-> "bad_syntax"]

BadUtf8 == [t |-> "bad_utf8"]

TooDeep == [t |-> "too_deep"]

(* What json.loads raises. *)
JSONDecodeError == [t |-> "JSONDecodeError"]

UnicodeDecodeError == [t |-> "UnicodeDecodeError"]

RecursionError == [t |-> "RecursionError"]

(* json.loads(bytes): the object, or the exception raised. *)
json_loads(bytes) ==
    CASE bytes = BadSyntax -> JSONDecodeError
      [] bytes = BadUtf8 -> UnicodeDecodeError
      [] bytes = TooDeep -> RecursionError
      [] OTHER -> bytes

(* The Content-Type header of a request, as the words and separators of    *)
(* its value; the empty sequence is a request without the header.          *)
ContentTypes ==
    {<<>>,
     <<"application", "/", "json">>,
     <<"Application", "/", "JSON", ";", "charset=utf-8">>,
     <<"application", "/", "merge-patch", "+", "json">>,
     <<"application", "/", "x", "/", "y", "+", "json">>,
     <<"text", "/", "plain">>}

(* str.lower() on the words that have capitals. *)
Lower == [w \in {"Application", "JSON"} |-> IF w = "JSON" THEN "json" ELSE "application"]

lower(w) == IF w \in DOMAIN Lower THEN Lower[w] ELSE w

(* The place of the first separator sep in value, past its end without one. *)
IndexOf(value, sep) ==
    IF \E i \in DOMAIN value : value[i] = sep
    THEN CHOOSE i \in DOMAIN value :
            value[i] = sep /\ \A j \in DOMAIN value : value[j] = sep => i <= j
    ELSE Len(value) + 1

(* The media type of the header without its parameters, in lower case;     *)
(* text/plain when it has not exactly one "/".                             *)
get_content_type(value) ==
    LET ctype == [i \in 1..(IndexOf(value, ";") - 1) |-> lower(value[i])] IN
    IF Cardinality({i \in DOMAIN ctype : ctype[i] = "/"}) # 1
    THEN <<"text", "/", "plain">>
    ELSE ctype

get_content_maintype(value) ==
    LET ctype == get_content_type(value) IN
    SubSeq(ctype, 1, IndexOf(ctype, "/") - 1)

get_content_subtype(value) ==
    LET ctype == get_content_type(value) IN
    SubSeq(ctype, IndexOf(ctype, "/") + 1, Len(ctype))

(* Whether the framework decodes the bytes as JSON: without a Content-Type, *)
(* and under application/json or application/...+json.                     *)
is_json(content_type) ==
    \/ content_type = <<>>
    \/ /\ get_content_maintype(content_type) = <<"application">>
       /\ LET subtype == get_content_subtype(content_type) IN
            \/ subtype = <<"json">>
            \/ /\ Len(subtype) >= 2
               /\ SubSeq(subtype, Len(subtype) - 1, Len(subtype)) = <<"+", "json">>

(* The Content-Types of the model that have the bytes decoded. *)
JsonContentTypes == {c \in ContentTypes : is_json(c)}

(* What the reading of the body ends the request with: 422 json_invalid    *)
(* for a JSONDecodeError, 400 for any other exception.                     *)
JsonInvalid == [t |-> "json_invalid"]

ParseError == [t |-> "parse_error"]

(* The body as the framework hands it to the dependencies and the handler: *)
(* nothing for a request without bytes; the bytes as they are under a      *)
(* Content-Type that is not JSON; else what json.loads gives, JsonInvalid  *)
(* when it raises JSONDecodeError and ParseError when it raises another    *)
(* exception.                                                              *)
request_body(content_type, bytes) ==
    IF bytes = Empty THEN Missing
    ELSE IF content_type \notin JsonContentTypes THEN RawBytes(bytes)
    ELSE IF json_loads(bytes) = JSONDecodeError THEN JsonInvalid
    ELSE IF json_loads(bytes) \in {UnicodeDecodeError, RecursionError} THEN ParseError
    ELSE json_loads(bytes)

(* The answer to a request whose body could not be read. *)
body_error(body) ==
    CASE body = JsonInvalid -> [status |-> 422, detail |-> "json_invalid"]
      [] body = ParseError ->
            [status |-> 400, detail |-> "There was an error parsing the body"]
      [] OTHER -> [status |-> 200, detail |-> ""]

(* The JSON bodies sent to PUT /auth/profile are functions of the keys     *)
(* set: BodiesOver(V) has every body whose key f carries a value of V[f].  *)
BodiesOver(V) ==
    UNION {{b \in [D -> JsonValues] : \A f \in D : b[f] \in V[f]} :
                D \in SUBSET UpdateFields}

(* Keys that a client may add to a body and that are no field of           *)
(* UserProfileUpdate.                                                      *)
ExtraKeys ==
    {<<>>, [email |-> Str("eve@x"), google_id |-> Str("g2"), id |-> IntV(0)]}

---------------------------------------------------------------------------
(* Requests. *)

NoHeader == [scheme |-> "none", token |-> Garbage]

(* The tokens a client may present: what the callback issued, a string     *)
(* that is no JWT, and JWTs made outside the server (as the tests do),     *)
(* under the server's key or another, expired an hour ago or good for 24.  *)
TestToken(key, sub, exp) == [wf |-> TRUE, key |-> key, sub |-> sub, exp |-> exp]

Bearer(token) == [scheme |-> "bearer", token |-> token]

IssuedHeaders == {Bearer(i.token) : i \in issued}

(* Headers that get_current_user turns down, or passes on to a lookup that *)
(* finds nobody: none, another scheme, no JWT, a foreign key, an expired   *)
(* token, a good token of a subject that never logged in.                  *)
StrangerHeaders ==
    {NoHeader, [scheme |-> "basic", token |-> Garbage], Bearer(Garbage),
     Bearer(TestToken("other", "g1", now + TokenTTL)),
     Bearer(TestToken(SECRET_KEY, "g1", now - 1)),
     Bearer(TestToken(SECRET_KEY, "test_google_id", now + TokenTTL))}

(* A response: the endpoint, the HTTP status, the detail / message / URL   *)
(* kind, the JSON body or the token of a redirect, whether the endpoint    *)
(* function ran, and whether the request it answers arrived with a token   *)
(* that had been presented to POST /auth/logout before.                    *)
Response(op, status, detail, body, reached) ==
    [op |-> op, status |-> status, detail |-> detail, body |-> body,
     reached |-> reached, after_logout |-> FALSE]

AfterLogout(header) == header \in {Bearer(t.token) : t \in loggedOut}

Answer(r, response) == [response EXCEPT !.after_logout = r.after_logout]

NoResp == Response("none", 0, "", NoDoc, FALSE)

(* A request to one of the endpoints that take a token, as it arrives: the *)
(* endpoint, the Authorization header, and the status the reading of its   *)
(* body ended it with, 200 when the body was read.                         *)
Arrival(op, header, body_status) ==
    [op |-> op, header |-> header, body_status |-> body_status]

NoReq == [op |-> "none"]

(* The requests under way. *)
Pending == BagToSet(inflight)

Suspend(r) == inflight (+) SetToBag({r})

Resume(r) == inflight (-) SetToBag({r})

HasRoom == BagCardinality(inflight) < MaxInflight

(* get_current_user up to its await: the header, then the token.           *)
get_current_user(header) ==
    IF header.scheme # "bearer"
    THEN [status |-> 401, detail |-> "Missing or invalid authorization header",
          sub |-> ""]
    ELSE IF ~verify_token(header.token).ok
    THEN [status |-> 401, detail |-> verify_token(header.token).detail, sub |-> ""]
    ELSE [status |-> 200, detail |-> "", sub |-> verify_token(header.token).sub]

(* get_current_user from its await on: the document find_one found, and   *)
(* the UserProfile built from it.                                          *)
get_current_user_find_one(google_id) ==
    IF find_one(users, google_id) = NoDoc
    THEN [status |-> 404, detail |-> "User not found", user |-> NoDoc]
    ELSE IF ~UserProfileValid(find_one(users, google_id))
    THEN [status |-> 500, detail |-> "Internal Server Error", user |-> NoDoc]
    ELSE [status |-> 200, detail |-> "", user |-> find_one(users, google_id)]

---------------------------------------------------------------------------
(* GET /api/auth/login/google *)

(* authorize_redirect answers with a redirect to the provider; what it     *)
(* raises (no session, provider metadata out of reach) is not caught.      *)
google_login(fails) ==
    /\ arrived' = NoReq
    /\ resp' = IF fails
               THEN Response("login", 500, "Internal Server Error", NoDoc, TRUE)
               ELSE Response("login", 307, "accounts.google.com", NoDoc, TRUE)
    /\ UNCHANGED <<users, status_checks, now, ticks, nextId, inflight, issued,
                   loggedOut, posted>>

---------------------------------------------------------------------------
(* GET /api/auth/google *)

ErrorRedirect == Response("callback", 307, "/auth/error?message=", NoDoc, TRUE)

TokenRedirect(token) == Response("callback", 307, "/auth/callback?token=", token, TRUE)

user_data(user_info) ==
    [id |-> nextId,
     google_id |-> user_info.sub,
     email |-> user_info.email,
     name |-> Str(user_info.name),
     picture |-> IF "picture" \in DOMAIN user_info THEN user_info.picture ELSE "",
     about_me |-> Str(""),
     age |-> Null,
     created_at |-> now,
     last_login |-> now]

(* A write to the document of gid has landed: the PUT requests of gid that *)
(* are between their write and their re-read are marked.                   *)
Mark(r, gid) ==
    IF r.kind = "put" /\ r.pc = "reread" /\ r.google_id = gid
    THEN [r EXCEPT !.interfered = TRUE]
    ELSE r

Interfere(reqs, gid) ==
    [x \in {Mark(r, gid) : r \in BagToSet(reqs)} |->
        (IF BagIn(x, reqs) /\ Mark(x, gid) = x THEN reqs[x] ELSE 0)
        + (IF x.kind = "put" /\ x.pc = "reread" /\ x.interfered
              /\ BagIn([x EXCEPT !.interfered = FALSE], reqs)
              /\ Mark([x EXCEPT !.interfered = FALSE], gid) = x
           THEN reqs[[x EXCEPT !.interfered = FALSE]] ELSE 0)]

(* The callback from the answer of authorize_access_token to the await of  *)
(* update_one: o is that answer.  user_data is built here, with the clock  *)
(* and a fresh id of this moment.                                          *)
google_auth(o) ==
    /\ arrived' = NoReq
    /\ nextId <= MaxIds
    /\ UNCHANGED <<users, status_checks, now, ticks, issued, loggedOut, posted>>
    /\ IF \/ o.kind # "ok"
          \/ ~({"sub", "email", "name"} \subseteq DOMAIN o.userinfo)
       THEN /\ resp' = ErrorRedirect
            /\ UNCHANGED <<nextId, inflight>>
       ELSE /\ HasRoom
            /\ inflight' = Suspend([kind |-> "login", pc |-> "update_one",
                                    sub |-> o.userinfo.sub,
                                    user_data |-> user_data(o.userinfo)])
            /\ nextId' = nextId + 1
            /\ resp' = NoResp

(* The database evaluates the filter of the upsert: a document that        *)
(* matches gets the $set; without one the upsert goes on to insert.  An    *)
(* error of the database is raised in the handler and caught there.        *)
google_auth_update_one(r, storeFails) ==
    /\ arrived' = NoReq
    /\ r \in Pending
    /\ r.kind = "login"
    /\ r.pc = "update_one"
    /\ UNCHANGED <<status_checks, now, ticks, nextId, issued, loggedOut, posted>>
    /\ IF storeFails
       THEN /\ resp' = ErrorRedirect
            /\ inflight' = Resume(r)
            /\ UNCHANGED users
       ELSE /\ resp' = NoResp
            /\ users' = update_one(users, r.sub, r.user_data)
            /\ inflight' =
                 IF FindIdx(users, r.sub) # 0
                 THEN Interfere(Resume(r), r.sub)
                        (+) SetToBag({[r EXCEPT !.pc = "return"]})
                 ELSE Resume(r) (+) SetToBag({[r EXCEPT !.pc = "insert"]})

(* The insert of an upsert that matched nothing. *)
google_auth_insert(r) ==
    /\ arrived' = NoReq
    /\ r \in Pending
    /\ r.kind = "login"
    /\ r.pc = "insert"
    /\ users' = upsert_insert(users, r.sub, r.user_data)
    /\ inflight' = Resume(r) (+) SetToBag({[r EXCEPT !.pc = "return"]})
    /\ resp' = NoResp
    /\ UNCHANGED <<status_checks, now, ticks, nextId, issued, loggedOut, posted>>

(* The callback after update_one: the token, with the clock of this        *)
(* moment, and the redirect.                                               *)
google_auth_return(r, issueFails) ==
    /\ arrived' = NoReq
    /\ r \in Pending
    /\ r.kind = "login"
    /\ r.pc = "return"
    /\ inflight' = Resume(r)
    /\ UNCHANGED <<users, status_checks, now, ticks, nextId, loggedOut, posted>>
    /\ IF issueFails
       THEN /\ resp' = ErrorRedirect
            /\ UNCHANGED issued
       ELSE /\ resp' = TokenRedirect(create_access_token([sub |-> r.sub]))
            /\ issued' = issued \cup
                  {[token |-> create_access_token([sub |-> r.sub]), at |-> now]}

---------------------------------------------------------------------------
(* GET /api/auth/me *)

(* The request up to the await of find_one in get_current_user.            *)
get_current_user_profile(header) ==
    /\ arrived' = Arrival("me", header, 200)
    /\ UNCHANGED <<users, status_checks, now, ticks, nextId, issued, loggedOut,
                   posted>>
    /\ IF get_current_user(header).status # 200
       THEN /\ resp' = Response("me", get_current_user(header).status,
                                get_current_user(header).detail, NoDoc, FALSE)
            /\ UNCHANGED inflight
       ELSE /\ HasRoom
            /\ inflight' = Suspend([kind |-> "me", pc |-> "find_one",
                                    google_id |-> get_current_user(header).sub,
                                    after_logout |-> AfterLogout(header)])
            /\ resp' = NoResp

(* find_one has answered: 404, or the UserProfile as the response.         *)
get_current_user_profile_return(r) ==
    /\ arrived' = NoReq
    /\ r \in Pending
    /\ r.kind = "me"
    /\ inflight' = Resume(r)
    /\ resp' = Answer(r, Response("me", get_current_user_find_one(r.google_id).status,
                                   get_current_user_find_one(r.google_id).detail,
                                   get_current_user_find_one(r.google_id).user,
                                   get_current_user_find_one(r.google_id).status = 200))
    /\ UNCHANGED <<users, status_checks, now, ticks, nextId, issued, loggedOut,
                   posted>>

---------------------------------------------------------------------------
(* PUT /api/auth/profile *)

(* The request up to the await of find_one in get_current_user: the body   *)
(* is read before the dependency is called, and bytes that are decoded as  *)
(* JSON and do not decode end the request there, with 422 or with 400.     *)
update_user_profile(header, content_type, bytes) ==
    LET body == request_body(content_type, bytes) IN
    /\ arrived' = Arrival("put", header, body_error(body).status)
    /\ UNCHANGED <<users, status_checks, now, ticks, nextId, issued, loggedOut,
                   posted>>
    /\ IF body_error(body).status # 200
       THEN /\ resp' = Response("put", body_error(body).status,
                                body_error(body).detail, NoDoc, FALSE)
            /\ UNCHANGED inflight
       ELSE IF get_current_user(header).status # 200
       THEN /\ resp' = Response("put", get_current_user(header).status,
                                get_current_user(header).detail, NoDoc, FALSE)
            /\ UNCHANGED inflight
       ELSE /\ HasRoom
            /\ inflight' = Suspend([kind |-> "put", pc |-> "find_one",
                                    google_id |-> get_current_user(header).sub,
                                    body |-> body,
                                    after_logout |-> AfterLogout(header)])
            /\ resp' = NoResp

(* jsonable_encoder on the input that a validation error carries: bytes    *)
(* are decoded as UTF-8.                                                   *)
jsonable_encoder(input) ==
    IF IsRawBytes(input) /\ input.v = BadUtf8 THEN UnicodeDecodeError ELSE input

(* The request of r after the dependency is solved: the body is validated  *)
(* as a UserProfileUpdate, and a validation error is answered 422 with the *)
(* body it turned down, or 500 when that cannot be encoded.                *)
solve_dependencies(r) ==
    IF get_current_user_find_one(r.google_id).status # 200
    THEN get_current_user_find_one(r.google_id)
    ELSE IF ~UserProfileUpdateValid(r.body)
    THEN IF jsonable_encoder(r.body) = UnicodeDecodeError
         THEN [status |-> 500, detail |-> "Internal Server Error", user |-> NoDoc]
         ELSE [status |-> 422, detail |-> "Unprocessable Entity", user |-> NoDoc]
    ELSE get_current_user_find_one(r.google_id)

(* find_one of the dependency has answered; the handler runs up to the     *)
(* await of update_one, or to its end when the body set nothing.           *)
update_user_profile_find_one(r) ==
    /\ arrived' = NoReq
    /\ r \in Pending
    /\ r.kind = "put"
    /\ r.pc = "find_one"
    /\ UNCHANGED <<users, status_checks, now, ticks, nextId, issued, loggedOut,
                   posted>>
    /\ IF solve_dependencies(r).status # 200
       THEN /\ resp' = Answer(r, Response("put", solve_dependencies(r).status,
                                          solve_dependencies(r).detail, NoDoc, FALSE))
            /\ inflight' = Resume(r)
       ELSE IF DOMAIN dict_exclude_unset(UserProfileUpdate(r.body)) = {}
       THEN /\ resp' = Answer(r, Response("put", 200, "", solve_dependencies(r).user, TRUE))
            /\ inflight' = Resume(r)
       ELSE /\ resp' = NoResp
            /\ inflight' = Resume(r) (+) SetToBag(
                  {[kind |-> "put", pc |-> "update_one",
                    body |-> r.body,
                    profile_update |-> UserProfileUpdate(r.body),
                    update_data |-> dict_exclude_unset(UserProfileUpdate(r.body)),
                    google_id |-> solve_dependencies(r).user.google_id,
                    after_logout |-> r.after_logout,
                    interfered |-> FALSE]})

(* The database performs the update_one of request r. *)
update_user_profile_write(r) ==
    /\ arrived' = NoReq
    /\ r \in Pending
    /\ r.kind = "put"
    /\ r.pc = "update_one"
    /\ users' = update_one(users, r.google_id, r.update_data)
    /\ inflight' = Interfere(Resume(r), r.google_id)
                      (+) SetToBag({[r EXCEPT !.pc = "reread"]})
    /\ resp' = NoResp
    /\ UNCHANGED <<status_checks, now, ticks, nextId, issued, loggedOut, posted>>

updated_user(r) == find_one(users, r.google_id)

(* find_one after the write has answered; the UserProfile built from the   *)
(* document is the response.                                               *)
update_user_profile_return(r) ==
    /\ arrived' = NoReq
    /\ r \in Pending
    /\ r.kind = "put"
    /\ r.pc = "reread"
    /\ inflight' = Resume(r)
    /\ resp' = IF UserProfileValid(updated_user(r))
               THEN Answer(r, Response("put", 200, "", updated_user(r), TRUE))
               ELSE Answer(r, Response("put", 500, "Internal Server Error", NoDoc, TRUE))
    /\ UNCHANGED <<users, status_checks, now, ticks, nextId, issued, loggedOut,
                   posted>>

---------------------------------------------------------------------------
(* POST /api/auth/logout *)

logout(header) ==
    /\ arrived' = Arrival("logout", header, 200)
    /\ resp' = Response("logout", 200, "Logged out successfully", NoDoc, TRUE)
    /\ loggedOut' = loggedOut \cup {i \in issued : header = Bearer(i.token)}
    /\ UNCHANGED <<users, status_checks, now, ticks, nextId, inflight, issued,
                   posted>>

---------------------------------------------------------------------------
(* Status Log. *)

StatusCheck(client_name) ==
    [id |-> nextId, client_name |-> client_name, timestamp |-> now]

(* POST /api/status up to the await of insert_one: the record is built,    *)
(* with the clock and a fresh id of this moment.                           *)
create_status_check(client_name) ==
    /\ arrived' = NoReq
    /\ nextId <= MaxPosts
    /\ HasRoom
    /\ inflight' = Suspend([kind |-> "status", pc |-> "insert_one",
                            status_obj |-> StatusCheck(client_name)])
    /\ nextId' = nextId + 1
    /\ resp' = NoResp
    /\ UNCHANGED <<users, status_checks, now, ticks, issued, loggedOut, posted>>

(* The database stores the record of request r, and the handler returns it. *)
create_status_check_return(r) ==
    /\ arrived' = NoReq
    /\ r \in Pending
    /\ r.kind = "status"
    /\ status_checks' = Append(status_checks, r.status_obj)
    /\ inflight' = Resume(r)
    /\ posted' = posted \cup {[rec |-> r.status_obj, prior |-> Len(status_checks)]}
    /\ resp' = Response("post_status", 200, "", r.status_obj, TRUE)
    /\ UNCHANGED <<users, now, ticks, nextId, issued, loggedOut>>

(* cursor.to_list(length): the first length documents, in natural order.   *)
to_list(cursor, length) ==
    SubSeq(cursor, 1, Min(length, Len(cursor)))

(* GET /api/status up to the await of to_list.  The request carries the    *)
(* records POST /status had returned when it arrived.                      *)
get_status_checks ==
    /\ arrived' = NoReq
    /\ HasRoom
    /\ inflight' = Suspend([kind |-> "get_status", pc |-> "to_list",
                            posted |-> posted])
    /\ resp' = NoResp
    /\ UNCHANGED <<users, status_checks, now, ticks, nextId, issued, loggedOut,
                   posted>>

(* The database reads the collection for request r. *)
get_status_checks_to_list(r) ==
    /\ arrived' = NoReq
    /\ r \in Pending
    /\ r.kind = "get_status"
    /\ r.pc = "to_list"
    /\ inflight' = Resume(r) (+) SetToBag(
          {[kind |-> "get_status", pc |-> "return", posted |-> r.posted,
            status_checks |-> to_list(status_checks, StatusCap)]})
    /\ resp' = NoResp
    /\ UNCHANGED <<users, status_checks, now, ticks, nextId, issued, loggedOut,
                   posted>>

(* to_list has answered; the list of StatusCheck is the response. *)
get_status_checks_return(r) ==
    /\ arrived' = NoReq
    /\ r \in Pending
    /\ r.kind = "get_status"
    /\ r.pc = "return"
    /\ inflight' = Resume(r)
    /\ resp' = Response("get_status", 200, "", r.status_checks, TRUE)
    /\ UNCHANGED <<users, status_checks, now, ticks, nextId, issued, loggedOut,
                   posted>>

---------------------------------------------------------------------------
(* The clock. *)

Tick(d) ==
    /\ arrived' = NoReq
    /\ ticks < MaxTicks
    /\ now' = now + d
    /\ ticks' = ticks + 1
    /\ resp' = NoResp
    /\ UNCHANGED <<users, status_checks, nextId, inflight, issued, loggedOut, posted>>

---------------------------------------------------------------------------
(* Specifications. *)

Init ==
    /\ users = <<>>
    /\ status_checks = <<>>
    /\ now = 0
    /\ ticks = 0
    /\ nextId = 1
    /\ inflight = EmptyBag
    /\ issued = {}
    /\ loggedOut = {}
    /\ posted = {}
    /\ arrived = NoReq
    /\ resp = NoResp

(* The requests under way of the given kinds. *)
Busy(kinds) == \E r \in Pending : r.kind \in kinds

(* The login handshake: both subjects log in, callbacks overlap, any step  *)
(* of the provider, the database or the token service may fail, the clock  *)
(* moves by an hour between any two steps, and the tokens are presented to *)
(* GET /auth/me.                                                           *)
Next ==
    \/ \E fails \in BOOLEAN : google_login(fails)
    \/ \E o \in ProviderOutcomes : google_auth(o)
    \/ \E r \in Pending, sf \in BOOLEAN : google_auth_update_one(r, sf)
    \/ \E r \in Pending : google_auth_insert(r)
    \/ \E r \in Pending, jf \in BOOLEAN : google_auth_return(r, jf)
    \/ \E h \in IssuedHeaders : ~Busy({"me"}) /\ get_current_user_profile(h)
    \/ \E r \in Pending : get_current_user_profile_return(r)
    \/ Tick(1)

Spec == Init /\ [][Next]_vars

(* Sessions: one subject, logins that succeed, the clock moving by an hour *)
(* or by a whole token lifetime between any two steps, the issued tokens   *)
(* and tokens made elsewhere presented to the three endpoints that take    *)
(* one.                                                                    *)
SessionHeaders ==
    IssuedHeaders \cup {h \in StrangerHeaders : h.scheme = "bearer"}

(* The bodies sent to PUT /auth/profile in a session, each with its        *)
(* Content-Type: JSON objects, no bytes, bytes that do not decode under a  *)
(* Content-Type that has them decoded, and such bytes under one that has   *)
(* not.                                                                    *)
SessionBodies ==
    {[content_type |-> <<"application", "/", "json">>, bytes |-> <<>>],
     [content_type |-> <<>>, bytes |-> [about_me |-> Str("bio")]],
     [content_type |-> <<>>, bytes |-> Empty],
     [content_type |-> <<"application", "/", "merge-patch", "+", "json">>,
      bytes |-> BadSyntax],
     [content_type |-> <<"Application", "/", "JSON", ";", "charset=utf-8">>,
      bytes |-> BadUtf8],
     [content_type |-> <<"text", "/", "plain">>, bytes |-> BadUtf8]}

NextSession ==
    \/ \E o \in {x \in ProviderOutcomes : x.kind = "ok" /\ DOMAIN x.userinfo = {"sub", "email", "name"}} :
            ~Busy({"login"}) /\ google_auth(o)
    \/ \E r \in Pending : google_auth_update_one(r, FALSE)
    \/ \E r \in Pending : google_auth_insert(r)
    \/ \E r \in Pending : google_auth_return(r, FALSE)
    \/ \E h \in SessionHeaders : ~Busy({"me", "put"}) /\ get_current_user_profile(h)
    \/ \E r \in Pending : get_current_user_profile_return(r)
    \/ \E h \in SessionHeaders, b \in SessionBodies :
            ~Busy({"me", "put"}) /\ update_user_profile(h, b.content_type, b.bytes)
    \/ \E r \in Pending : update_user_profile_find_one(r)
    \/ \E r \in Pending : update_user_profile_write(r)
    \/ \E r \in Pending : update_user_profile_return(r)
    \/ \E h \in IssuedHeaders : logout(h)
    \/ \E d \in {1, TokenTTL} : Tick(d)

SpecSession == Init /\ [][NextSession]_vars

(* Profile updates with bodies that set name and age to good and bad       *)
(* values, with and without keys that are no field of the update, or carry *)
(* no bytes or bytes that do not decode, under every Content-Type, without *)
(* a header and under every kind of token, made as the tests make them,    *)
(* while login callbacks of two subjects run.                              *)
ProfileBodies ==
    {ApplySet(b, e) :
        b \in BodiesOver([name |-> {Null, Str("Zed")}, about_me |-> {},
                          age |-> {IntV(30), Str("thirty"), Str("30"), FloatV(30),
                                   BoolV(TRUE)}]),
        e \in ExtraKeys}
        \cup {Empty, BadSyntax, BadUtf8, TooDeep}

ProfileHeaders ==
    StrangerHeaders \cup {Bearer(TestToken(SECRET_KEY, "g1", now + TokenTTL))}

NextProfile ==
    \/ logout(NoHeader)
    \/ \E o \in {x \in ProviderOutcomes : x.kind = "ok" /\ "picture" \in DOMAIN x.userinfo} :
            ~Busy({"login"}) /\ google_auth(o)
    \/ \E r \in Pending : google_auth_update_one(r, FALSE)
    \/ \E r \in Pending : google_auth_insert(r)
    \/ \E r \in Pending : google_auth_return(r, FALSE)
    \/ \E h \in ProfileHeaders : ~Busy({"me", "put"}) /\ get_current_user_profile(h)
    \/ \E r \in Pending : get_current_user_profile_return(r)
    \/ \E h \in ProfileHeaders, c \in ContentTypes, b \in ProfileBodies :
            ~Busy({"me", "put"}) /\ update_user_profile(h, c, b)
    \/ \E r \in Pending : update_user_profile_find_one(r)
    \/ \E r \in Pending : update_user_profile_write(r)
    \/ \E r \in Pending : update_user_profile_return(r)

SpecProfile == Init /\ [][NextProfile]_vars

(* Concurrent requests for one subject: profile updates under way together *)
(* and login callbacks between their steps.                                *)
RaceBodies ==
    BodiesOver([name |-> {Str("Zed")}, about_me |-> {Str("bio")}, age |-> {IntV(30)}])

NextRace ==
    \/ \E o \in {x \in ProviderOutcomes : x.kind = "ok" /\ x.userinfo.sub = "g1"
                                            /\ "picture" \in DOMAIN x.userinfo} :
            google_auth(o)
    \/ \E r \in Pending : google_auth_update_one(r, FALSE)
    \/ \E r \in Pending : google_auth_insert(r)
    \/ \E r \in Pending : google_auth_return(r, FALSE)
    \/ \E h \in IssuedHeaders, b \in RaceBodies :
            update_user_profile(h, <<"application", "/", "json">>, b)
    \/ \E r \in Pending : update_user_profile_find_one(r)
    \/ \E r \in Pending : update_user_profile_write(r)
    \/ \E r \in Pending : update_user_profile_return(r)

SpecRace == Init /\ [][NextRace]_vars

(* The status log on its own, over a collection that already holds records *)
(* of earlier runs (ids outside the range this run allocates).             *)
Seed(n) ==
    [i \in 1..n |-> [id |-> i - n, client_name |-> "seed", timestamp |-> 0]]

SeedSizes == {0, StatusCap - 2}

InitStatus ==
    /\ users = <<>>
    /\ status_checks \in {Seed(n) : n \in SeedSizes}
    /\ now = 0
    /\ ticks = 0
    /\ nextId = 1
    /\ inflight = EmptyBag
    /\ issued = {}
    /\ loggedOut = {}
    /\ posted = {}
    /\ arrived = NoReq
    /\ resp = NoResp

NextStatus ==
    \/ \E c \in {"x", "y"} : create_status_check(c)
    \/ \E r \in Pending : create_status_check_return(r)
    \/ ~Busy({"get_status"}) /\ get_status_checks
    \/ \E r \in Pending : get_status_checks_to_list(r)
    \/ \E r \in Pending : get_status_checks_return(r)
    \/ Tick(1)

SpecStatus == InitStatus /\ [][NextStatus]_vars

---------------------------------------------------------------------------
(* Properties. *)

DocsOf(sub) == {i \in DOMAIN users : users[i].google_id = sub}

(* C1: the users collection holds at most one document per provider        *)
(* subject id, and exactly one for every subject that was handed a token,  *)
(* whatever login callbacks and profile updates have run.                  *)
C1_OneDocumentPerSubject ==
    /\ \A sub \in Subjects : Cardinality(DocsOf(sub)) <= 1
    /\ \A t \in issued : Cardinality(DocsOf(t.token.sub)) = 1

(* C4: every request of the handshake, login initiation and callback, ends *)
(* in a redirect: to the provider or with a token on success, to the       *)
(* front-end error URL on any failure, and never in an HTTP error.         *)
C4_HandshakeRedirects ==
    resp.op \in {"login", "callback"} => resp.status = 307

(* C10: no step changes the id or the created_at of a users document, so   *)
(* both keep the values of the subject's first login.                      *)
C10_IdAndCreatedAtKept ==
    [][\A i \in DOMAIN users :
            /\ i \in DOMAIN users'
            /\ users'[i].id = users[i].id
            /\ users'[i].created_at = users[i].created_at]_vars

---------------------------------------------------------------------------

TokenRejected(token) ==
    ~token.wf \/ token.key # SECRET_KEY \/ token.exp <= now

(* How a bearer request is decided when it arrives: 401 for a token that  *)
(* is no JWT, wrongly signed or expired; for any other no answer yet, the  *)
(* request waits for the lookup of the subject's document.                 *)
ArrivalOutcome ==
    IF TokenRejected(arrived.header.token)
    THEN resp.status = 401
    ELSE /\ resp = NoResp
         /\ \E r \in Pending : /\ r.kind = arrived.op
                                /\ r.pc = "find_one"
                                /\ r.google_id = arrived.header.token.sub

(* How it is decided when the lookup has answered: 404 without a document, *)
(* and the endpoint function runs only with one.                           *)
LookupOutcome(r) ==
    /\ resp'.status # 401
    /\ DocsOf(r.google_id) = {} => (resp'.status = 404 /\ inflight' = Resume(r))
    /\ (resp'.reached \/ inflight' # Resume(r)) => DocsOf(r.google_id) # {}

(* A PUT whose body could not be read is answered 422 or 400 and goes no   *)
(* further.                                                                *)
BodyUnread ==
    (arrived.op = "put" /\ arrived.body_status # 200) =>
        /\ arrived.body_status \in {400, 422}
        /\ resp.status = arrived.body_status
        /\ ~resp.reached

(* C2 as amended: a bearer request to GET /auth/me, or to PUT              *)
(* /auth/profile whose body was read, is answered 401 when its token is no *)
(* JWT, wrongly signed or expired on arrival, whether or not its subject   *)
(* has a document; a token that is good on arrival is answered 404 when    *)
(* the lookup finds no document of its subject; the endpoint function runs *)
(* only for a good token whose subject has a document.  A PUT whose body   *)
(* could not be read (bytes that are there, come under no Content-Type or  *)
(* one of application/json or application/...+json, and do not decode) is  *)
(* answered 422 or 400 whatever its token.                                 *)
C2_AuthOrder ==
    [][/\ (/\ arrived'.op \in {"me", "put"}
           /\ arrived'.header.scheme = "bearer"
           /\ arrived'.body_status = 200) => ArrivalOutcome'
       /\ BodyUnread'
       /\ \A r \in Pending :
            (\/ get_current_user_profile_return(r)
             \/ update_user_profile_find_one(r)) => LookupOutcome(r)]_vars

(* A PUT with a good token of a subject without a document was answered    *)
(* 404 while another subject has a document.                               *)
C2_Witness ==
    /\ resp.op = "put"
    /\ resp.status = 404
    /\ users # <<>>

(* C2 as stated: the same order for every bearer request to the two        *)
(* endpoints, whatever the body of the PUT.                                *)
C2_Original ==
    [][/\ (/\ arrived'.op \in {"me", "put"}
           /\ arrived'.header.scheme = "bearer") => ArrivalOutcome'
       /\ \A r \in Pending :
            (\/ get_current_user_profile_return(r)
             \/ update_user_profile_find_one(r)) => LookupOutcome(r)]_vars

(* C3: a request to GET /auth/me, PUT /auth/profile or POST /auth/logout   *)
(* without an Authorization header is answered 401.                        *)
C3_NoHeader ==
    (arrived.op # "none" /\ arrived.header = NoHeader) => resp.status = 401

---------------------------------------------------------------------------

(* The users documents after the write of request r, were it a partial     *)
(* merge that gives the keys of values their values.                       *)
Merged(r, values) ==
    /\ Len(users') = Len(users)
    /\ \A j \in DOMAIN users :
          IF j = FindIdx(users, r.google_id)
          THEN /\ DOMAIN users'[j] = DOMAIN users[j]
               /\ \A f \in DOMAIN users[j] :
                     users'[j][f] = IF f \in DOMAIN values
                                    THEN values[f]
                                    ELSE users[j][f]
               /\ \A f \in {"email", "picture", "google_id", "id", "created_at", "last_login"} :
                     users'[j][f] = users[j][f]
          ELSE users'[j] = users[j]

(* The steps of a PUT other than its write leave users alone, and a        *)
(* request with an empty body does not get to the write.                   *)
WritesNothingElse ==
    /\ \A r \in Pending :
            /\ update_user_profile_return(r) => users' = users
            /\ update_user_profile_find_one(r) =>
                    /\ users' = users
                    /\ DOMAIN r.body = {} => inflight' = Resume(r)
    /\ arrived' # NoReq => users' = users

(* The values a body supplies for name, about_me and age. *)
Supplied(body) == [f \in (DOMAIN body) \cap UpdateFields |-> body[f]]

(* C5: the write of PUT /auth/profile gives exactly the fields among name, *)
(* about_me and age that its body supplied the values the body supplied,   *)
(* and keeps every other field of the caller's document, email, picture,   *)
(* google_id, id, created_at and last_login among them, and every other    *)
(* document; the other steps of the request write nothing, and a request   *)
(* with an empty body does not get to the write.                           *)
C5_PartialMerge ==
    [][/\ \A r \in Pending :
            update_user_profile_write(r) => Merged(r, Supplied(r.body))
       /\ WritesNothingElse]_vars

(* C6: PUT /auth/profile with a good token and a body whose age is no      *)
(* integer answers 422 and writes nothing, whether or not the token's      *)
(* subject has a document.                                                 *)
C6_BadAge422 ==
    [][\A r \in Pending :
            (/\ r.kind = "put"
             /\ r.pc = "find_one"
             /\ "age" \in DOMAIN r.body
             /\ r.body["age"].t \notin {"int", "null"}
             /\ update_user_profile_find_one(r))
            => (resp'.status = 422 /\ users' = users)]_vars

---------------------------------------------------------------------------

(* An issued token that arrives at GET /auth/me, or at PUT /auth/profile   *)
(* with a body that was read, is taken before the 24th hour after its      *)
(* issuance and turned down with 401 after it.                             *)
TokenLifetime ==
    \A t \in issued :
        (/\ arrived.op \in {"me", "put"}
         /\ arrived.header = Bearer(t.token)
         /\ arrived.body_status = 200) =>
            /\ now < t.at + 24 => resp.status # 401
            /\ now > t.at + 24 => resp.status = 401

(* POST /auth/logout answers 200 "Logged out successfully" and changes     *)
(* neither collection nor any token or request under way.                  *)
LogoutNoOp ==
    \A h \in IssuedHeaders :
        logout(h) => /\ resp'.status = 200
                     /\ resp'.detail = "Logged out successfully"
                     /\ users' = users
                     /\ status_checks' = status_checks
                     /\ issued' = issued
                     /\ inflight' = inflight

(* A request whose token was taken is not answered 401 afterwards.         *)
NoLate401 ==
    \A r \in Pending :
        (\/ get_current_user_profile_return(r)
         \/ update_user_profile_find_one(r)) => resp'.status # 401

(* C7: logout is a no-op on the server; an issued token, presented to      *)
(* logout before or not, that GET /auth/me or PUT /auth/profile hands to   *)
(* get_current_user is accepted less than 24 hours after its issuance and  *)
(* answered 401 later than that, and an accepted request is not answered   *)
(* 401 afterwards.                                                         *)
C7_LogoutKeepsToken ==
    [][LogoutNoOp /\ TokenLifetime' /\ NoLate401]_vars

(* The only token issued was presented to logout, and a request that       *)
(* arrived with it after that, an hour or more after its issuance, has     *)
(* been answered 200 by GET /auth/me or PUT /auth/profile.                 *)
C7_Witness ==
    /\ Cardinality(issued) = 1
    /\ loggedOut = issued
    /\ \A t \in issued : now > t.at /\ now < t.at + 24
    /\ resp.op \in {"me", "put"}
    /\ resp.status = 200
    /\ resp.after_logout

---------------------------------------------------------------------------

(* C8: a record that POST /status has returned is in the response of every *)
(* GET /status that arrives after that, with its client_name, id and       *)
(* timestamp, however many records are stored; the records stay in the     *)
(* collection, at their place and unchanged.                               *)
C8_PostedThenListed ==
    [][/\ \A r \in Pending :
            get_status_checks_return(r) =>
                \A p \in r.posted : p.rec \in Range(resp'.body)
       /\ \A i \in DOMAIN status_checks :
            i \in DOMAIN status_checks' /\ status_checks'[i] = status_checks[i]]_vars

---------------------------------------------------------------------------

SuppliedReturned(r, values) ==
    \A f \in DOMAIN values : resp'.body[f] = values[f]

(* C9 as amended: the 200 response of a non-empty PUT /auth/profile is the *)
(* caller's document as the re-read finds it; every field the request set  *)
(* has the value it set, as UserProfileUpdate validated it, when no other  *)
(* write to that document (the write of another PUT, a login callback)     *)
(* came between this request's write and its re-read.                      *)
C9_ReturnsReread ==
    [][\A r \in Pending :
            (update_user_profile_return(r) /\ resp'.status = 200) =>
                /\ resp'.body = find_one(users, r.google_id)
                /\ ~r.interfered => SuppliedReturned(r, r.profile_update)]_vars

(* A PUT that set the name has answered 200 with it while another PUT for  *)
(* the same subject is between its write and its re-read.                  *)
C9_Witness ==
    /\ resp.op = "put"
    /\ resp.status = 200
    /\ resp.body.name = Str("Zed")
    /\ \E r \in Pending :
            r.kind = "put" /\ r.pc = "reread" /\ "age" \in DOMAIN r.profile_update

(* C9 as stated: every field the request set has the value it set in the   *)
(* 200 response, whatever was interleaved.                                 *)
C9_Original ==
    [][\A r \in Pending :
            (update_user_profile_return(r) /\ resp'.status = 200) =>
                SuppliedReturned(r, r.body)]_vars

=============================================================================
